---- MODULE Spec2Model ----
(***************************************************************************)
(* A model of src/sys/signalfd.rs: the SignalFd handle (creation, set_mask, *)
(* read_signal, Iterator::next, Drop), the siginfo record layout, and the   *)
(* operating-system primitives the handle calls (signalfd(2), read, close). *)
(***************************************************************************)
EXTENDS Integers, Sequences, FiniteSets, TLC

\* Number of SignalFd handles the modelled program creates over its life.
MaxHandles == 2

\* Number of handles it creates when the system calls may return any result
\* of their type (specification SpecIO).
MaxHandlesIO == 1

\* Number of non-zero bytes in the buffers that specification SpecCodec
\* hands to read_signal's decoding.
MaxNonzero == 1

\* ------------------------------------------------------------------------
\* Constants of the source
\* ------------------------------------------------------------------------
SFD_NONBLOCK == 2048
SFD_CLOEXEC == 524288
CREATE_NEW_FD == -1
SIGINFO_SIZE == 128
SIGINFO_PADDING == 48

\* bitflags! SfdFlags: a value is a set of the declared flags.
SfdFlags == SUBSET {SFD_NONBLOCK, SFD_CLOEXEC}

RECURSIVE SumSet(_)
SumSet(S) == IF S = {} THEN 0
             ELSE LET x == CHOOSE y \in S : TRUE IN x + SumSet(S \ {x})

\* SfdFlags::bits(): the c_int handed to the system call.
bits(flags) == SumSet(flags)

\* SfdFlags::empty()
SfdFlags_empty == {}

\* The signals of the model (SIGUSR1, SIGUSR2) and the masks built from them.
Signals == {10, 12}
SigSets == SUBSET Signals

\* ------------------------------------------------------------------------
\* The siginfo record: #[repr(C, packed)], sixteen fixed-width fields
\* ------------------------------------------------------------------------
\* siginfo with ssi_ptr declared u32 instead of u64.
siginfo_ptr32 ==
  << [name |-> "ssi_signo",   width |-> 4, signed |-> FALSE],
     [name |-> "ssi_errno",   width |-> 4, signed |-> TRUE],
     [name |-> "ssi_code",    width |-> 4, signed |-> TRUE],
     [name |-> "ssi_pid",     width |-> 4, signed |-> FALSE],
     [name |-> "ssi_uid",     width |-> 4, signed |-> FALSE],
     [name |-> "ssi_fd",      width |-> 4, signed |-> TRUE],
     [name |-> "ssi_tid",     width |-> 4, signed |-> FALSE],
     [name |-> "ssi_band",    width |-> 4, signed |-> FALSE],
     [name |-> "ssi_overrun", width |-> 4, signed |-> FALSE],
     [name |-> "ssi_trapno",  width |-> 4, signed |-> FALSE],
     [name |-> "ssi_status",  width |-> 4, signed |-> TRUE],
     [name |-> "ssi_int",     width |-> 4, signed |-> TRUE],
     [name |-> "ssi_ptr",     width |-> 4, signed |-> FALSE],
     [name |-> "ssi_utime",   width |-> 8, signed |-> FALSE],
     [name |-> "ssi_stime",   width |-> 8, signed |-> FALSE],
     [name |-> "ssi_addr",    width |-> 8, signed |-> FALSE] >>

siginfo ==
  << [name |-> "ssi_signo",   width |-> 4, signed |-> FALSE],
     [name |-> "ssi_errno",   width |-> 4, signed |-> TRUE],
     [name |-> "ssi_code",    width |-> 4, signed |-> TRUE],
     [name |-> "ssi_pid",     width |-> 4, signed |-> FALSE],
     [name |-> "ssi_uid",     width |-> 4, signed |-> FALSE],
     [name |-> "ssi_fd",      width |-> 4, signed |-> TRUE],
     [name |-> "ssi_tid",     width |-> 4, signed |-> FALSE],
     [name |-> "ssi_band",    width |-> 4, signed |-> FALSE],
     [name |-> "ssi_overrun", width |-> 4, signed |-> FALSE],
     [name |-> "ssi_trapno",  width |-> 4, signed |-> FALSE],
     [name |-> "ssi_status",  width |-> 4, signed |-> TRUE],
     [name |-> "ssi_int",     width |-> 4, signed |-> TRUE],
     [name |-> "ssi_ptr",     width |-> 8, signed |-> FALSE],
     [name |-> "ssi_utime",   width |-> 8, signed |-> FALSE],
     [name |-> "ssi_stime",   width |-> 8, signed |-> FALSE],
     [name |-> "ssi_addr",    width |-> 8, signed |-> FALSE] >>

FieldNames == {siginfo[i].name : i \in 1..Len(siginfo)}

RECURSIVE SumWidths(_, _)
SumWidths(fields, n) == IF n = 0 THEN 0
                        ELSE fields[n].width + SumWidths(fields, n - 1)

\* mem::size_of::<siginfo>(): a packed struct has no padding between or
\* after its fields, so its size is the sum of the field widths.
size_of_siginfo == SumWidths(siginfo, Len(siginfo))

\* Byte offset (0-based) of each field of the packed struct: the widths of
\* the fields before it.
offset_of == [i \in 1..Len(siginfo) |-> SumWidths(siginfo, i - 1)]

\* The position of each field in the declaration.
FieldIndex == [f \in FieldNames |-> CHOOSE j \in 1..Len(siginfo) : siginfo[j].name = f]

\* Little-endian value of a byte sequence (Horner form, least byte first).
RECURSIVE LE(_)
LE(bs) == IF bs = <<>> THEN 0 ELSE bs[1] + 256 * LE(Tail(bs))

\* Two's-complement reading of a little-endian byte sequence: the top byte
\* counts as top - 256 when its sign bit is set.
SignedLE(bs) ==
  LET n == Len(bs)
  IN LE([k \in 1..n |-> IF k = n /\ bs[n] >= 128 THEN bs[n] - 256 ELSE bs[k]])

\* The w little-endian bytes of v (two's complement for negative v).
RECURSIVE ToLE(_, _)
ToLE(v, w) == IF w = 0 THEN <<>> ELSE <<v % 256>> \o ToLE(v \div 256, w - 1)

\* A decoding that skips the first four bytes of the buffer.
transmute_copy_shifted(buffer) ==
  [f \in FieldNames |->
     LET i  == FieldIndex[f]
         bs == SubSeq(buffer, offset_of[i] + 5, offset_of[i] + 4 + siginfo[i].width)
     IN IF siginfo[i].signed THEN SignedLE(bs) ELSE LE(bs)]

\* A decoding that takes ssi_pid and ssi_uid from each other's place.
transmute_copy_swapped(buffer) ==
  [f \in FieldNames |->
     LET g  == IF f = "ssi_pid" THEN "ssi_uid" ELSE IF f = "ssi_uid" THEN "ssi_pid" ELSE f
         i  == FieldIndex[g]
         bs == SubSeq(buffer, offset_of[i] + 1, offset_of[i] + siginfo[i].width)
     IN IF siginfo[i].signed THEN SignedLE(bs) ELSE LE(bs)]

\* mem::transmute_copy(&buffer): the record whose fields are the leading
\* size_of::<siginfo>() bytes of the buffer, field by field at its offset.
transmute_copy(buffer) ==
  [f \in FieldNames |->
     LET i  == FieldIndex[f]
         bs == SubSeq(buffer, offset_of[i] + 1, offset_of[i] + siginfo[i].width)
     IN IF siginfo[i].signed THEN SignedLE(bs) ELSE LE(bs)]

ZeroRecord == [f \in FieldNames |-> 0]

\* ------------------------------------------------------------------------
\* State
\* ------------------------------------------------------------------------
VARIABLES
  handles,   \* the SignalFd values of the program: life-cycle state, the RawFd
             \* held (self.0), the call a thread is blocked in, close calls made
  fdtable,   \* the process's descriptor table: per descriptor, whether it is
             \* open and, for a signalfd, its mask and its O_NONBLOCK status
             \* (O_CLOEXEC acts only at exec, which no operation here performs)
  pending,   \* the blocked signals pending for the process
  last,      \* the most recent operation: its name, its handle, what the
             \* system call under it returned, and what it returned
  scen,      \* progress of the scenario raise, read_signal, read_signal
  iter,      \* progress of the scenario next() = None, raise, next()
  faults,    \* whether the system calls may also return the results their
             \* signatures allow but a signalfd never produces
  codec      \* a buffer under decoding: the 128 bytes read, the record
             \* read_signal makes of them, and the bytes of that record

vars == <<handles, fdtable, pending, last, scen, iter, faults, codec>>

Handles == 1..MaxHandles

\* Descriptors 0..2 are the standard streams; the model's descriptors follow.
FDs == 3..(2 + MaxHandles)

\* The fd field of a handle slot that holds no SignalFd: no descriptor.
NoFd == CREATE_NEW_FD

ClosedEntry == [open |-> FALSE, mask |-> {}, nonblock |-> FALSE]

\* Results of the operations: Ok(Some(rec)), Ok(None), Ok(()), Ok(fd),
\* Ok(SignalFd(fd)), Err(Error::Sys(errno)), a panic, or a call still
\* blocked in the kernel.
Res(kind, errno, rec, fd) == [kind |-> kind, errno |-> errno, rec |-> rec, fd |-> fd]
\* The rec field of a result that carries no record.
NoRec == <<>>
OkSome(rec) == Res("OkSome", "", rec, NoFd)
OkNone == Res("OkNone", "", NoRec, NoFd)
OkUnit == Res("OkUnit", "", NoRec, NoFd)
OkFd(fd) == Res("OkFd", "", NoRec, fd)
OkHandle(fd) == Res("OkHandle", "", NoRec, fd)
Err(errno) == Res("Err", errno, NoRec, NoFd)
Panic == Res("Panic", "", NoRec, NoFd)
Blocked == Res("Blocked", "", NoRec, NoFd)
NoRes == Res("-", "", NoRec, NoFd)

\* Option<siginfo> as Iterator::next returns it.
Some(rec) == Res("Some", "", rec, NoFd)
None == Res("None", "", NoRec, NoFd)

\* What a system call returned: its return value and errno (when it is -1).
Sys(ret, errno) == [ret |-> ret, errno |-> errno]
NoSys == Sys(0, "")

Idle == [stage |-> 0, h |-> 0, s |-> 0, r1 |-> NoRes, r2 |-> NoRes]

\* No buffer under decoding.
NoCodec == [stage |-> "none", buf |-> <<>>, rec |-> NoRec, out |-> <<>>]

\* A program that creates n handles: the slots after the n-th stay unused.
Start(n) ==
  /\ handles = [h \in Handles |-> [st |-> IF h <= n THEN "none" ELSE "unused",
                                    fd |-> NoFd, call |-> "", closes |-> 0]]
  /\ fdtable = [fd \in FDs |-> ClosedEntry]
  /\ pending = {}
  /\ last = [op |-> "init", h |-> 0, arg |-> {}, sys |-> NoSys, rs |-> NoRes, res |-> NoRes]
  /\ scen = Idle
  /\ iter = Idle

\* The program on Linux: the system calls behave as signalfd(2) documents.
Init == Start(MaxHandles) /\ faults = FALSE /\ codec = NoCodec

\* The program over system calls that may return any result of their type.
InitIO == Start(MaxHandlesIO) /\ faults = TRUE /\ codec = NoCodec

\* ------------------------------------------------------------------------
\* The operating system under the handle
\* ------------------------------------------------------------------------
\* Whether bit b (a power of two) is set in the flag word w.
HasBit(w, b) == (w \div b) % 2 = 1

\* The descriptor a successful allocation returns: the lowest free one.
LowestFree == CHOOSE fd \in FDs : /\ ~fdtable[fd].open
                                  /\ \A g \in FDs : g < fd => fdtable[g].open

\* ffi::signalfd(fd, mask, flags): the outcomes the kernel can produce, each
\* with the return value, errno and the descriptor table afterwards.  With
\* fd = -1 a new descriptor is allocated (or the call fails for lack of
\* resources); with an existing signalfd descriptor its mask is replaced, the
\* flags are not applied, and fd itself is returned.
ffi_signalfd(fd, mask, flagbits) ==
  IF fd = -1
  THEN {[ret |-> -1, errno |-> e, table |-> fdtable] : e \in {"EMFILE", "ENOMEM"}}
       \cup (IF \E g \in FDs : ~fdtable[g].open
             THEN {[ret |-> LowestFree, errno |-> "",
                    table |-> [fdtable EXCEPT ![LowestFree] =
                                 [open |-> TRUE, mask |-> mask,
                                  nonblock |-> HasBit(flagbits, SFD_NONBLOCK)]]]}
             ELSE {})
  ELSE IF fd \notin FDs \/ ~fdtable[fd].open
  THEN {[ret |-> -1, errno |-> "EBADF", table |-> fdtable]}
  ELSE {[ret |-> fd, errno |-> "",
         table |-> [fdtable EXCEPT ![fd].mask = mask]]}
       \cup (IF faults
             THEN {[ret |-> -1, errno |-> e, table |-> fdtable] : e \in {"EINVAL"}}
             ELSE {})

\* The signals a read of descriptor fd can dequeue now.
Readable(fd) == IF fd \in FDs /\ fdtable[fd].open THEN pending \cap fdtable[fd].mask ELSE {}

\* A read of descriptor fd that has to wait for a signal.
WouldBlock(fd) == fd \in FDs /\ fdtable[fd].open /\ ~fdtable[fd].nonblock /\ Readable(fd) = {}

\* The 128 bytes the kernel writes for signal s raised by this process with
\* raise(): signal number, si_code SI_TKILL, sender pid and uid, zeros after.
SiginfoBytes(s) ==
  LET rec == [ZeroRecord EXCEPT !["ssi_signo"] = s, !["ssi_code"] = -6,
                                !["ssi_pid"] = 4242, !["ssi_uid"] = 1000]
      RECURSIVE Bytes(_)
      Bytes(i) == IF i > Len(siginfo) THEN <<>>
                  ELSE ToLE(rec[siginfo[i].name], siginfo[i].width) \o Bytes(i + 1)
      body == Bytes(1)
  IN body \o [k \in 1..(128 - Len(body)) |-> 0]

signalfd_siginfo == [s \in Signals |-> SiginfoBytes(s)]

ZeroBuffer == [k \in 1..SIGINFO_SIZE |-> 0]

\* One outcome of unistd::read: bytes read (or -1 and errno), the buffer
\* contents, and the pending set afterwards.
ReadOutcome(ret, errno, buffer, pend) ==
  [ret |-> ret, errno |-> errno, buffer |-> buffer, pend |-> pend]

\* Results unistd::read's signature allows and a signalfd does not produce:
\* a short read, and failures other than would-block.
ReadFaults ==
  IF faults
  THEN {ReadOutcome(n, "", ZeroBuffer, pending) : n \in {0, 127}}
       \cup {ReadOutcome(-1, e, ZeroBuffer, pending) : e \in {"EBADF", "EIO"}}
  ELSE {}

\* unistd::read(fd, &mut buffer) with a buffer of count bytes: the outcomes
\* with which the call can return now (none while it has to wait).
unistd_read(fd, count) ==
  ReadFaults \cup
  (IF fd \notin FDs \/ ~fdtable[fd].open
   THEN {ReadOutcome(-1, "EBADF", ZeroBuffer, pending)}
   ELSE IF count < 128
   THEN {ReadOutcome(-1, "EINVAL", ZeroBuffer, pending)}
   ELSE IF Readable(fd) = {}
   THEN (IF fdtable[fd].nonblock
         THEN {ReadOutcome(-1, "EAGAIN", ZeroBuffer, pending)}
         ELSE {})
   ELSE {ReadOutcome(128, "", signalfd_siginfo[s], pending \ {s}) : s \in Readable(fd)})

\* A waiting read that a signal handler interrupts.
Interrupted == ReadOutcome(-1, "EINTR", ZeroBuffer, pending)

\* unistd::close(fd): the descriptor is released whether or not the call
\* reports an error.
unistd_close(fd) ==
  IF fd \notin FDs \/ ~fdtable[fd].open
  THEN {[ret |-> -1, errno |-> "EBADF", table |-> fdtable]}
  ELSE {[ret |-> r, errno |-> IF r = 0 THEN "" ELSE "EIO",
         table |-> [fdtable EXCEPT ![fd] = ClosedEntry]] : r \in {0, -1}}

\* ------------------------------------------------------------------------
\* The functions of signalfd.rs
\* ------------------------------------------------------------------------
\* signalfd without the test for -1: every return value is taken as Ok(fd).
signalfd_unchecked(fd, mask, flags) ==
  {[k |-> k, res |-> OkFd(k.ret)] : k \in ffi_signalfd(fd, mask, bits(flags))}

\* signalfd(fd, mask, flags): each outcome k of the system call with the
\* Result made of it: -1 is Err(Error::Sys(errno)), any other value Ok(fd).
signalfd(fd, mask, flags) ==
  {[k |-> k, res |-> IF k.ret = -1 THEN Err(k.errno) ELSE OkFd(k.ret)] :
     k \in ffi_signalfd(fd, mask, bits(flags))}

\* SignalFd::with_flags(mask, flags): try!(signalfd(CREATE_NEW_FD, ..)),
\* then Ok(SignalFd(fd)).
with_flags(mask, flags) ==
  {[k |-> c.k, res |-> IF c.res.kind = "Err" THEN c.res ELSE OkHandle(c.res.fd)] :
     c \in signalfd(CREATE_NEW_FD, mask, flags)}

\* SignalFd::new(mask)
new(mask) == with_flags(mask, SfdFlags_empty)

\* set_mask that asks for a new descriptor instead of naming its own.
set_mask_new_fd(self, mask) ==
  {[k |-> c.k, res |-> IF c.res.kind = "Err" THEN c.res ELSE OkUnit] :
     c \in signalfd(CREATE_NEW_FD, mask, SfdFlags_empty)}

\* SignalFd::set_mask(&mut self, mask), self being the descriptor held.
set_mask(self, mask) ==
  {[k |-> c.k, res |-> IF c.res.kind = "Err" THEN c.res ELSE OkUnit] :
     c \in signalfd(self, mask, SfdFlags_empty)}

\* The length of read_signal's buffer: [u8; SIGINFO_SIZE].
buffer_len == SIGINFO_SIZE

\* read_signal without the EAGAIN arm: would-block is returned as an error.
read_signal_no_eagain(o) ==
  IF o.ret = SIGINFO_SIZE THEN OkSome(transmute_copy(o.buffer))
  ELSE IF o.ret # -1 THEN Panic
  ELSE Err(o.errno)

\* read_signal that decodes the buffer after any successful read.
read_signal_any_count(o) ==
  IF o.ret # -1 THEN OkSome(transmute_copy(o.buffer))
  ELSE IF o.errno = "EAGAIN" THEN OkNone
  ELSE Err(o.errno)

\* read_signal that treats an interrupted or failed read like would-block.
read_signal_eio_none(o) ==
  IF o.ret = SIGINFO_SIZE THEN OkSome(transmute_copy(o.buffer))
  ELSE IF o.ret # -1 THEN Panic
  ELSE IF o.errno \in {"EAGAIN", "EINTR", "EIO"} THEN OkNone
  ELSE Err(o.errno)

\* SignalFd::read_signal: what it makes of the outcome o of its one read.
read_signal(o) ==
  IF o.ret = SIGINFO_SIZE THEN OkSome(transmute_copy(o.buffer))
  ELSE IF o.ret # -1 THEN Panic
  ELSE IF o.errno = "EAGAIN" THEN OkNone
  ELSE Err(o.errno)

\* next that unwraps read_signal's result: an error panics.
next_unwrap(h, rs) ==
  IF rs.kind = "OkSome" THEN Some(rs.rec)
  ELSE IF rs.kind = "OkNone" THEN None
  ELSE Panic

\* A fused next: once it has returned None it returns None.
next_fused(h, rs) ==
  IF iter.stage \in {1, 2} /\ iter.h = h THEN None
  ELSE IF rs.kind = "OkSome" THEN Some(rs.rec)
  ELSE IF rs.kind = "OkNone" THEN None
  ELSE IF rs.kind = "Err" THEN None
  ELSE rs

\* Iterator::next: what it makes of read_signal's result rs (a panic in
\* read_signal unwinds through it).
next(h, rs) ==
  IF rs.kind = "OkSome" THEN Some(rs.rec)
  ELSE IF rs.kind = "OkNone" THEN None
  ELSE IF rs.kind = "Err" THEN None
  ELSE rs

\* drop that unwraps the result of close: a failing close panics.
drop_unwrap(self) ==
  {[k |-> c, closes |-> 1, res |-> IF c.ret = -1 THEN Panic ELSE OkUnit] :
     c \in unistd_close(self)}

\* Drop::drop(&mut self): one close of the descriptor held, its result
\* discarded.  Each outcome holds the close calls made and what drop returns.
drop(self) ==
  {[k |-> c, closes |-> 1, res |-> OkUnit] : c \in unistd_close(self)}

\* ------------------------------------------------------------------------
\* Operations
\* ------------------------------------------------------------------------
Live(h) == handles[h].st = "live"

\* The program is one thread: while it waits inside a read it makes no
\* other call.
Waiting == \E h \in Handles : handles[h].st = "reading"

\* A panic unwinds the thread: it makes no further call, and the handles in
\* scope are dropped.
Unwinding == \E h \in Handles : handles[h].st = "panicked"

Running == ~Waiting /\ ~Unwinding

\* The slot the next SignalFd created takes.
NextSlot == CHOOSE h \in Handles : /\ handles[h].st = "none"
                                   /\ \A g \in Handles : g < h => handles[g].st # "none"

Log(op, h, arg, ret, errno, rs, res) ==
  last' = [op |-> op, h |-> h, arg |-> arg, sys |-> Sys(ret, errno), rs |-> rs, res |-> res]

\* The mask that outcome c of a signalfd call put in force (none on failure).
Applied(mask, c) == IF c.k.ret = -1 THEN {} ELSE mask

\* A constructor returned outcome c: on Ok the new handle owns c's descriptor.
Created(op, mask, c) ==
  /\ fdtable' = c.k.table
  /\ handles' = IF c.res.kind = "OkHandle"
                THEN [handles EXCEPT ![NextSlot] =
                        [st |-> "live", fd |-> c.res.fd, call |-> "", closes |-> 0]]
                ELSE handles
  /\ Log(op, NextSlot, Applied(mask, c), c.k.ret, c.k.errno, NoRes, c.res)
  /\ scen' = Idle /\ iter' = Idle
  /\ UNCHANGED <<pending, faults, codec>>

New(mask) ==
  /\ Running
  /\ \E h \in Handles : handles[h].st = "none"
  /\ \E c \in new(mask) : Created("new", mask, c)

WithFlags(mask, flags) ==
  /\ Running
  /\ \E h \in Handles : handles[h].st = "none"
  /\ \E c \in with_flags(mask, flags) : Created("with_flags", mask, c)

SetMask(h, mask) ==
  /\ Running /\ Live(h)
  /\ \E c \in set_mask(handles[h].fd, mask) :
       /\ fdtable' = c.k.table
       /\ Log("set_mask", h, Applied(mask, c), c.k.ret, c.k.errno, NoRes, c.res)
  /\ scen' = Idle /\ iter' = Idle
  /\ UNCHANGED <<handles, pending, faults, codec>>

\* The scenario after a read_signal of h returned res: the first read after
\* the raise, then the read right after it.
ScenRead(h, call, res) ==
  IF /\ call = "read_signal" /\ Live(h) /\ scen.stage = 1
     /\ fdtable[handles[h].fd].nonblock
     /\ scen.s \in fdtable[handles[h].fd].mask
     /\ Readable(handles[h].fd) = {scen.s}
  THEN [scen EXCEPT !.stage = 2, !.h = h, !.r1 = res]
  ELSE IF call = "read_signal" /\ Live(h) /\ scen.stage = 2 /\ scen.h = h
  THEN [scen EXCEPT !.stage = 3, !.r2 = res]
  ELSE Idle

\* The scenario after a next() of h returned res: a next() that found
\* nothing, and the next() after a signal of the mask was raised.
IterRead(h, call, res) ==
  IF call = "next" /\ Live(h) /\ iter.stage = 2 /\ iter.h = h
  THEN [iter EXCEPT !.stage = 3, !.r2 = res]
  ELSE IF call = "next" /\ Live(h) /\ res.kind = "None"
  THEN [Idle EXCEPT !.stage = 1, !.h = h, !.r1 = res]
  ELSE Idle

\* The scenario after raise(s).
IterRaise(s) ==
  IF /\ iter.stage = 1 /\ Live(iter.h)
     /\ s \in fdtable[handles[iter.h].fd].mask
     /\ Readable(handles[iter.h].fd) \subseteq {s}
  THEN [iter EXCEPT !.stage = 2, !.s = s]
  ELSE Idle

\* A read made under `call` (read_signal or next) on h returned outcome o.
Returned(h, call, o) ==
  LET rs  == read_signal(o)
      res == IF call = "next" THEN next(h, rs) ELSE rs
  IN /\ handles' = [handles EXCEPT ![h].st = IF rs.kind = "Panic" THEN "panicked" ELSE "live",
                                    ![h].call = ""]
     /\ pending' = o.pend
     /\ Log(call, h, {}, o.ret, o.errno, rs, res)
     /\ scen' = ScenRead(h, call, res)
     /\ iter' = IterRead(h, call, res)
     /\ UNCHANGED <<fdtable, faults, codec>>

\* The read has to wait: the calling thread stays inside `call`.
Waits(h, call) ==
  /\ WouldBlock(handles[h].fd)
  /\ handles' = [handles EXCEPT ![h].st = "reading", ![h].call = call]
  /\ Log(call, h, {}, 0, "", NoRes, Blocked)
  /\ scen' = Idle /\ iter' = Idle
  /\ UNCHANGED <<fdtable, pending, faults, codec>>

ReadSignal(h) ==
  /\ Running /\ Live(h)
  /\ \/ \E o \in unistd_read(handles[h].fd, buffer_len) : Returned(h, "read_signal", o)
     \/ Waits(h, "read_signal")

IterNext(h) ==
  /\ Running /\ Live(h)
  /\ \/ \E o \in unistd_read(handles[h].fd, buffer_len) : Returned(h, "next", o)
     \/ Waits(h, "next")

\* A signal of the mask arrived: the waiting read returns its record.
Wake(h) ==
  /\ handles[h].st = "reading"
  /\ Readable(handles[h].fd) # {}
  /\ \E o \in unistd_read(handles[h].fd, buffer_len) : Returned(h, handles[h].call, o)

\* A signal handler ran in the waiting thread: the read fails with EINTR.
Interrupt(h) ==
  /\ handles[h].st = "reading"
  /\ Returned(h, handles[h].call, Interrupted)

\* raise(s) against the current process, s being blocked: s becomes pending
\* (a standard signal is pending at most once).
Raise(s) ==
  /\ pending' = pending \cup {s}
  /\ Log("raise", 0, {s}, 0, "", NoRes, OkUnit)
  /\ scen' = [Idle EXCEPT !.stage = 1, !.s = s]
  /\ iter' = IterRaise(s)
  /\ UNCHANGED <<handles, fdtable, faults, codec>>

\* The handle goes out of scope (also when a panic unwinds past it).
Drop(h) ==
  /\ ~Waiting
  /\ handles[h].st \in {"live", "panicked"}
  /\ \E d \in drop(handles[h].fd) :
       /\ fdtable' = d.k.table
       /\ handles' = [handles EXCEPT ![h].st = "dropped", ![h].fd = NoFd,
                                     ![h].closes = handles[h].closes + d.closes]
       /\ Log("drop", h, {}, d.k.ret, d.k.errno, NoRes, d.res)
  /\ scen' = Idle /\ iter' = Idle
  /\ UNCHANGED <<pending, faults, codec>>

Next ==
  \/ \E mask \in SigSets : New(mask)
  \/ \E mask \in SigSets, flags \in SfdFlags : WithFlags(mask, flags)
  \/ \E h \in Handles, mask \in SigSets : SetMask(h, mask)
  \/ \E h \in Handles : ReadSignal(h)
  \/ \E h \in Handles : IterNext(h)
  \/ \E h \in Handles : Wake(h)
  \/ \E h \in Handles : Interrupt(h)
  \/ \E s \in Signals : Raise(s)
  \/ \E h \in Handles : Drop(h)

Spec == Init /\ [][Next]_vars

SpecIO == InitIO /\ [][Next]_vars

\* ------------------------------------------------------------------------
\* The decoding alone
\* ------------------------------------------------------------------------
\* The bytes of a record as a wire buffer: each field's little-endian bytes
\* in declaration order, then SIGINFO_PADDING zero bytes.
encode(rec) ==
  LET RECURSIVE Bytes(_)
      Bytes(i) == IF i > Len(siginfo) THEN <<>>
                  ELSE ToLE(rec[siginfo[i].name], siginfo[i].width) \o Bytes(i + 1)
  IN Bytes(1) \o [k \in 1..SIGINFO_PADDING |-> 0]

\* The byte positions (1-based) the buffers vary: the first and the fourth
\* byte of every field, and four bytes after the record (where newer kernels
\* put ssi_addr_lsb and ssi_syscall, and the last byte).
Positions ==
  {offset_of[i] + 1 : i \in 1..Len(siginfo)}
    \cup {offset_of[i] + 4 : i \in 1..Len(siginfo)}
    \cup {size_of_siginfo + 1, size_of_siginfo + 2, size_of_siginfo + 5, SIGINFO_SIZE}

ByteVals == {1, 200}

\* Whether byte value b at position p keeps the field it lies in within the
\* integers of the model checker (below 2^31 in absolute value).
Fits(p, b) ==
  \A i \in 1..Len(siginfo) :
     (offset_of[i] < p /\ p <= offset_of[i] + siginfo[i].width)
       => \/ siginfo[i].signed
          \/ p - offset_of[i] <= 3
          \/ p - offset_of[i] = 4 /\ b < 128

Cells == {c \in Positions \X ByteVals : Fits(c[1], c[2])}

\* The sets of at most n cells at different positions.
RECURSIVE Patches(_)
Patches(n) ==
  IF n = 0 THEN {{}}
  ELSE LET P == Patches(n - 1)
       IN P \cup UNION {{f \cup {c} : c \in {d \in Cells : \A e \in f : e[1] # d[1]}} : f \in P}

\* The 128-byte buffer that is zero but for the cells of f.
Patched(f) ==
  [k \in 1..SIGINFO_SIZE |-> IF \E c \in f : c[1] = k
                      THEN (CHOOSE c \in f : c[1] = k)[2] ELSE 0]

\* The buffers decoded: the records the kernel writes for the signals of the
\* model, and the buffers with at most MaxNonzero non-zero bytes.
Buffers ==
  {signalfd_siginfo[s] : s \in Signals} \cup {Patched(f) : f \in Patches(MaxNonzero)}

InitCodec ==
  /\ Start(0) /\ faults = FALSE
  /\ codec \in {[NoCodec EXCEPT !.stage = "read", !.buf = b] : b \in Buffers}

\* read_signal on a read that filled the buffer with codec.buf.
Decode ==
  /\ codec.stage = "read"
  /\ LET rs == read_signal(ReadOutcome(SIGINFO_SIZE, "", codec.buf, pending))
     IN codec' = [codec EXCEPT !.stage = "decoded", !.rec = rs.rec]
  /\ UNCHANGED <<handles, fdtable, pending, last, scen, iter, faults>>

\* The record written back as bytes.
Encode ==
  /\ codec.stage = "decoded"
  /\ codec' = [codec EXCEPT !.stage = "encoded", !.out = encode(codec.rec)]
  /\ UNCHANGED <<handles, fdtable, pending, last, scen, iter, faults>>

NextCodec == Decode \/ Encode

SpecCodec == InitCodec /\ [][NextCodec]_vars

\* ------------------------------------------------------------------------
\* Properties
\* ------------------------------------------------------------------------
\* The step is a call of `op` on handle h made now (not the return of a
\* read that was waiting).
Calls(op, h) == Running /\ Live(h) /\ last'.op = op /\ last'.h = h

Fd(h) == handles[h].fd

Held(h) == handles[h].st \in {"live", "reading", "panicked"}

\* C1: on a handle created with SFD_NONBLOCK, a read_signal made while no
\* signal of its mask is pending returns Ok(None): no error, no panic, and
\* the call does not wait.  This holds for every such read, the first after
\* creation and any later one.
C1_EmptyNonblockingReadIsNone ==
  [][\A h \in Handles :
       (Calls("read_signal", h) /\ fdtable[Fd(h)].nonblock /\ Readable(Fd(h)) = {})
         => (last'.res = OkNone /\ handles'[h].st = "live")]_vars

C1_Witness ==
  /\ last.op = "read_signal" /\ last.res = OkNone
  /\ Live(last.h) /\ fdtable[Fd(last.h)].nonblock
  /\ fdtable[Fd(last.h)].mask # {} /\ Readable(Fd(last.h)) = {}

\* C2: with a non-blocking handle whose mask contains s, after s is raised
\* once the next read_signal returns Ok(Some(rec)) with rec.ssi_signo = s,
\* and the read_signal right after it returns Ok(None).
C2_OneRaiseOneRecord ==
  /\ scen.stage >= 2 => (scen.r1.kind = "OkSome" /\ scen.r1.rec["ssi_signo"] = scen.s)
  /\ scen.stage = 3 => scen.r2 = OkNone

C2_Witness == scen.stage = 3 /\ scen.r1.kind = "OkSome"

\* C3: next returns Some(r) exactly when read_signal returned Ok(Some(r)),
\* and None when read_signal returned Ok(None) or an Err: it never returns
\* an error; and on a non-blocking handle with nothing pending a call of
\* next returns None at once, after its one read.
C3_NextAbsorbsErrors ==
  [][\A h \in Handles :
       (last'.op = "next" /\ last'.h = h)
         => /\ last'.res.kind \in {"Some", "None", "Blocked"}
            /\ (last'.res.kind = "Some") <=> (last'.rs.kind = "OkSome")
            /\ last'.res.kind = "Some" => last'.res.rec = last'.rs.rec
            /\ (last'.res.kind = "None") <=> (last'.rs.kind \in {"OkNone", "Err"})
            /\ (Calls("next", h) /\ fdtable[Fd(h)].nonblock /\ Readable(Fd(h)) = {})
                 => (last'.res = None /\ handles'[h].st = "live" /\ pending' = pending)]_vars

C3_Witness ==
  /\ last.op = "next" /\ last.rs.kind = "Err" /\ last.res = None

\* C4: when read_signal's read succeeds with a byte count other than 128
\* (zero included), read_signal panics: it returns neither a record nor
\* Ok(None) nor Err, and nothing is decoded.
C4_ShortReadPanics ==
  (/\ last.op \in {"read_signal", "next"}
   /\ last.res.kind # "Blocked"
   /\ last.sys.ret \notin {-1, SIGINFO_SIZE})
    => (last.rs = Panic /\ last.res = Panic /\ handles[last.h].st = "panicked")

C4_Witness ==
  /\ last.op = "read_signal" /\ last.sys.ret = 0 /\ last.rs = Panic

\* C5: when the read fails with an error other than EAGAIN, read_signal
\* returns Err with that same error; EAGAIN is the only failure it turns
\* into Ok(None).
C5_OtherErrorsPropagate ==
  (last.op = "read_signal" /\ last.res.kind # "Blocked")
    => /\ (last.sys.ret = -1 /\ last.sys.errno # "EAGAIN") => last.res = Err(last.sys.errno)
       /\ (last.sys.ret = -1 /\ last.sys.errno = "EAGAIN") => last.res = OkNone
       /\ last.res = OkNone => (last.sys.ret = -1 /\ last.sys.errno = "EAGAIN")

C5_Witness ==
  /\ last.op = "read_signal" /\ last.sys.ret = -1 /\ last.sys.errno = "EIO"
  /\ last.res = Err("EIO")

\* C6: the descriptor of a handle is closed exactly once, by drop: never
\* while the handle is held, never a second time; a failing close is
\* discarded (drop returns normally); and no read or set_mask is made on a
\* descriptor after its close.
C6_ClosedExactlyOnce ==
  /\ \A h \in Handles :
       /\ handles[h].closes = (IF handles[h].st = "dropped" THEN 1 ELSE 0)
       /\ Held(h) => (Fd(h) \in FDs /\ fdtable[Fd(h)].open)
  /\ last.op = "drop" => (last.res = OkUnit /\ handles[last.h].st = "dropped")
  /\ last.op \in {"read_signal", "next", "set_mask"}
       => (Held(last.h) /\ last.sys.errno # "EBADF")

C6_Witness ==
  /\ last.op = "drop" /\ last.sys.ret = -1
  /\ handles[last.h].closes = 1
  /\ \A fd \in FDs : ~fdtable[fd].open

\* C7: new and with_flags succeed for every mask and every combination of
\* flags unless the system call reports an error; on success the handle
\* owns the descriptor returned, and no two held handles have the same
\* descriptor; on failure the caller gets Err with the errno and neither a
\* handle nor a descriptor is created.
C7_CreationOwnsFreshDescriptor ==
  /\ \A h1, h2 \in Handles :
       (Held(h1) /\ Held(h2) /\ h1 # h2) => Fd(h1) # Fd(h2)
  /\ \A fd \in FDs : fdtable[fd].open => \E h \in Handles : Held(h) /\ Fd(h) = fd
  /\ last.op \in {"new", "with_flags"}
       => IF last.sys.ret = -1
          THEN last.res = Err(last.sys.errno) /\ handles[last.h].st = "none"
          ELSE /\ last.res = OkHandle(last.sys.ret)
               /\ Live(last.h) /\ Fd(last.h) = last.sys.ret
               /\ fdtable[Fd(last.h)].mask = last.arg

C7_Witness ==
  /\ last.op = "with_flags" /\ last.res.kind = "OkHandle" /\ last.arg = {}
  /\ \E h \in Handles : h # last.h /\ Live(h)

\* C8: set_mask(m) on a live handle replaces the mask of the handle's own
\* descriptor with m: no descriptor is allocated, the handle keeps its
\* descriptor and its blocking mode and stays live; if the system call
\* fails the error is returned and nothing changes.
C8_SetMaskKeepsDescriptor ==
  [][\A h \in Handles :
       Calls("set_mask", h)
         => /\ handles' = handles
            /\ IF last'.sys.ret = -1
               THEN last'.res = Err(last'.sys.errno) /\ fdtable' = fdtable
               ELSE /\ last'.res = OkUnit
                    /\ fdtable' = [fdtable EXCEPT ![Fd(h)].mask = last'.arg]]_vars

C8_Witness ==
  /\ last.op = "set_mask" /\ last.res = OkUnit /\ Live(last.h)
  /\ fdtable[Fd(last.h)].nonblock /\ fdtable[Fd(last.h)].mask = Signals

C10_RecordSizePlusPadding ==
  /\ size_of_siginfo + SIGINFO_PADDING = SIGINFO_SIZE
  /\ buffer_len = SIGINFO_SIZE
  /\ Len(siginfo) = 16
  /\ Cardinality({i \in 1..Len(siginfo) : siginfo[i].width = 4}) = 12
  /\ Cardinality({i \in 1..Len(siginfo) : siginfo[i].width = 8}) = 4
  /\ last.rs.kind = "OkSome" => last.sys.ret = size_of_siginfo + SIGINFO_PADDING

C10_Witness == last.op = "read_signal" /\ last.rs.kind = "OkSome"

\* The last SIGINFO_PADDING bytes of buffer b are zero.
PaddingZero(b) == \A k \in (size_of_siginfo + 1)..Len(b) : b[k] = 0

\* C11 as stated: for every 128-byte buffer, encoding the decoded record
\* gives the buffer back byte for byte, and the all-zero buffer decodes to
\* the all-zero record.
C11_Original ==
  /\ codec.stage = "encoded" => codec.out = codec.buf
  /\ (codec.stage \in {"decoded", "encoded"} /\ codec.buf = ZeroBuffer)
       => codec.rec = ZeroRecord

\* C11 amended: the decoding keeps the first size_of::<siginfo>() = 80 bytes
\* of the buffer and drops the SIGINFO_PADDING bytes after them: encoding
\* the decoded record gives those 80 bytes back byte for byte, followed by
\* zeros, so it equals the buffer exactly when the buffer's last 48 bytes
\* are zero; and the all-zero buffer decodes to the all-zero record.
C11_RoundTripUpToPadding ==
  /\ codec.stage = "encoded"
       => /\ Len(codec.out) = SIGINFO_SIZE /\ Len(codec.buf) = SIGINFO_SIZE
          /\ \A k \in 1..size_of_siginfo : codec.out[k] = codec.buf[k]
          /\ \A k \in (size_of_siginfo + 1)..SIGINFO_SIZE : codec.out[k] = 0
          /\ (codec.out = codec.buf) <=> PaddingZero(codec.buf)
  /\ (codec.stage \in {"decoded", "encoded"} /\ codec.buf = ZeroBuffer)
       => codec.rec = ZeroRecord

C11_Witness ==
  /\ codec.stage = "encoded"
  /\ codec.rec["ssi_code"] < 0
  /\ codec.out = codec.buf

====
